---- MODULE Spec2Model ----
(***************************************************************************)
(* Model of gitingest's descriptor resolver (query_parsing.py) and clone   *)
(* orchestrator (cloning.py).                                              *)
(*                                                                         *)
(* Strings are sequences of characters (one-character TLA+ strings), so    *)
(* that slicing, stripping, splitting and substring tests are computed as  *)
(* Python computes them.  Literals of the program that are only ever       *)
(* concatenated into an argument or a message ("git", "--depth=1", the     *)
(* message texts) are kept as a single element.  An Optional[str] is a     *)
(* sequence of length 0 (None) or 1 (the string).                          *)
(***************************************************************************)
EXTENDS Integers, Sequences, FiniteSets, TLC

VARIABLES
    entry,              \* the function the behaviour runs: "clone", "parse" or "fetch"
    events,             \* clone/parse: makedirs calls and spawned processes, in order
    pc,                 \* clone/parse: position of the unit of work
    err,                \* clone/parse: the exception that left the function, None if none
    config,             \* clone_repo: the CloneConfig it was called with
    input,              \* _parse_remote_repo: source, github_token, config.GITHUB_TOKEN
    domain,             \* try_domains_for_user_and_repo: index of the host being probed
    query,              \* _parse_remote_repo: the ParsedQuery being built
    warned,             \* _parse_remote_repo: the warnings emitted, in order
    fpc,                \* fetch_remote_branch_list, per task: position
    furl,               \* fetch_remote_branch_list, per task: the url argument
    flog,               \* fetch_remote_branch_list, per task: spawned processes, in order
    fout,               \* fetch_remote_branch_list, per task: stdout, result or exception
    store,              \* the process-wide git credential store: a set of entries
    uuids,              \* _parse_remote_repo, line 196: the number of uuids drawn so far
    dest                \* _parse_remote_repo, per task: its source, the local paths it got

cloneVars == <<config>>
parseVars == <<input, domain, query, warned>>
fetchVars == <<fpc, furl, flog, fout, store>>
destVars == <<uuids, dest>>
vars == <<entry, events, pc, err, config, input, domain, query, warned,
          fpc, furl, flog, fout, store, uuids, dest>>

----------------------------------------------------------------------------
(* Optional values *)

None == <<>>
Some(s) == <<s>>
IsSet(o) == o # None
Val(o) == o[1]
\* Python truthiness of an Optional[str]: None and "" are false
Truthy(o) == o # None /\ o[1] # <<>>

----------------------------------------------------------------------------
(* Python string operations on character sequences *)

\* sub in s
Contains(s, sub) ==
    \E i \in 1..(Len(s) - Len(sub) + 1) : SubSeq(s, i, i + Len(sub) - 1) = sub

\* s.startswith(p)
StartsWith(s, p) == Len(p) <= Len(s) /\ SubSeq(s, 1, Len(p)) = p

\* s.endswith(p)
EndsWith(s, p) == Len(p) <= Len(s) /\ SubSeq(s, Len(s) - Len(p) + 1, Len(s)) = p

\* s.find(sub) + 1: the position of the first occurrence, 0 if none
Find(s, sub) ==
    IF Contains(s, sub)
    THEN CHOOSE i \in 1..(Len(s) - Len(sub) + 1) :
            /\ SubSeq(s, i, i + Len(sub) - 1) = sub
            /\ \A j \in 1..(i - 1) : SubSeq(s, j, j + Len(sub) - 1) # sub
    ELSE 0

\* s.split(sep, 1) for a separator that occurs in s: <<before, after>>
Split1(s, sep) ==
    LET i == Find(s, sep)
    IN  <<SubSeq(s, 1, i - 1), SubSeq(s, i + Len(sep), Len(s))>>

\* s.lstrip(c)
RECURSIVE LStrip(_, _)
LStrip(s, c) == IF s # <<>> /\ Head(s) = c THEN LStrip(Tail(s), c) ELSE s

\* s[:-1]
DropLast(s) == SubSeq(s, 1, Len(s) - 1)

\* s[n:]
From(s, n) == SubSeq(s, n + 1, Len(s))

\* sep.join(parts)
RECURSIVE Join(_, _)
Join(parts, sep) ==
    IF parts = <<>> THEN <<>>
    ELSE IF Len(parts) = 1 THEN parts[1]
    ELSE parts[1] \o sep \o Join(Tail(parts), sep)

UpperAlpha == <<"A","B","C","D","E","F","G","H","I","J","K","L","M",
                "N","O","P","Q","R","S","T","U","V","W","X","Y","Z">>
LowerAlpha == <<"a","b","c","d","e","f","g","h","i","j","k","l","m",
                "n","o","p","q","r","s","t","u","v","w","x","y","z">>

\* s.lower()
Lower(s) ==
    [i \in 1..Len(s) |->
        IF \E k \in 1..26 : UpperAlpha[k] = s[i]
        THEN LowerAlpha[CHOOSE k \in 1..26 : UpperAlpha[k] = s[i]]
        ELSE s[i]]

DigitChars == <<"0", "1", "2", "3", "4", "5", "6", "7", "8", "9">>

\* int(s) for a string of decimal digits
RECURSIVE StrToInt(_)
StrToInt(s) ==
    IF s = <<>> THEN 0
    ELSE 10 * StrToInt(DropLast(s))
         + (CHOOSE d \in 0..9 : DigitChars[d + 1] = s[Len(s)])

\* str(n) for n >= 0
RECURSIVE IntToStr(_)
IntToStr(n) ==
    IF n < 10 THEN <<DigitChars[n + 1]>>
    ELSE IntToStr(n \div 10) \o <<DigitChars[(n % 10) + 1]>>

\* str(Path(p).parent) for an absolute path with at least two segments
Parent(p) ==
    LET last == CHOOSE i \in 1..Len(p) :
                    p[i] = "/" /\ \A j \in (i + 1)..Len(p) : p[j] # "/"
    IN  SubSeq(p, 1, last - 1)

----------------------------------------------------------------------------
(* Literals *)

HttpsPrefix == <<"h", "t", "t", "p", "s", ":", "/", "/">>
SchemeSep == <<":", "/", "/">>
GithubCom == <<"g", "i", "t", "h", "u", "b", ".", "c", "o", "m">>
BrMain == <<"m", "a", "i", "n">>
BrMaster == <<"m", "a", "s", "t", "e", "r">>

\* len(auth_part) > 30: the length above which userinfo is taken for a token
TokenMinLen == 30

----------------------------------------------------------------------------
(* Inputs of the model *)

UrlGithub == <<"h", "t", "t", "p", "s", ":", "/", "/", "g", "i", "t", "h", "u", "b", ".", "c", "o", "m", "/", "o", "/", "r">>
UrlGitlab == <<"h", "t", "t", "p", "s", ":", "/", "/", "g", "i", "t", "l", "a", "b", ".", "c", "o", "m", "/", "o", "/", "r">>
UrlHttpGithub == <<"h", "t", "t", "p", ":", "/", "/", "g", "i", "t", "h", "u", "b", ".", "c", "o", "m", "/", "o", "/", "r">>
LocalPath == <<"/", "t", "m", "p", "/", "g", "i", "t", "i", "n", "g", "e", "s", "t", "/", "i", "d", "/", "o", "-", "r">>

\* length of the long token of the model (a GitHub token has 40 characters)
LongTokenLen == 40
LongToken == [i \in 1..LongTokenLen |-> IF i % 2 = 1 THEN "T" ELSE "K"]
ShortToken == <<"s", "3", "c", "r", "3", "t">>
\* None, the empty default of config.GITHUB_TOKEN, a short and a long token
Tokens == {None, Some(<<>>), Some(ShortToken), Some(LongToken)}

CommitAbc == <<"a", "b", "c", "1", "2", "3", "4">>
BrMainUpper == <<"M", "a", "i", "n">>
BrDev == <<"d", "e", "v">>
SubRoot == <<"/">>
SubSrcDir == <<"/", "s", "r", "c", "/">>
SubFilePy == <<"/", "f", "i", "l", "e", ".", "p", "y">>
SubFilePySlash == <<"/", "f", "i", "l", "e", ".", "p", "y", "/">>
FilePy == <<"f", "i", "l", "e", ".", "p", "y">>

\* a repository on another host whose name ends like GitHub's
UrlMyGithub == <<"h", "t", "t", "p", "s", ":", "/", "/", "m", "y", "g", "i", "t", "h", "u", "b", ".", "c", "o", "m", "/", "o", "/", "r">>
CloneUrls == {UrlGithub, UrlGitlab, UrlHttpGithub, UrlMyGithub}
CloneCommits == {None, Some(CommitAbc)}
CloneBranches == {None, Some(BrMain), Some(BrMainUpper), Some(BrDev)}
CloneSubpaths == {SubRoot, SubSrcDir, SubFilePy, SubFilePySlash}

\* captured error streams of a failing command
StderrTexts == {<<"fatal: repository not found">>, <<>>}

\* the ways a started curl can end: exit code and, per response of the redirect
\* chain (-L), the status line <<version, code>>
StatusLine(code) == <<"HTTP/2", code>>
ProbeResponses ==
    { <<StatusLine(<<"2", "0", "0">>)>>,
      <<StatusLine(<<"3", "0", "1">>), StatusLine(<<"2", "0", "0">>)>>,
      <<StatusLine(<<"4", "0", "4">>)>>,
      <<StatusLine(<<"3", "0", "2">>), StatusLine(<<"2", "0", "0">>)>>,
      <<StatusLine(<<"4", "0", "1">>)>>,
      <<StatusLine(<<"4", "0", "3">>)>>,
      <<StatusLine(<<"5", "0", "0">>)>>,
      <<StatusLine(<<"4", "2", "9">>)>> }
ProbeOutcomes ==
    {[rc |-> "ok", response |-> r] : r \in ProbeResponses}
        \cup {[rc |-> "nonzero", response |-> <<>>]}

\* the ways a spawned git --version can end (check_git_installed)
GitVersionOutcomes == {"ok", "notfound", "nonzero"}
\* the ways a spawned command can end: exit 0, exit non-zero, or the spawn itself
\* fails (create_subprocess_exec raises OSError)
CommandOutcomes == {"ok", "nonzero", "startfail"}

----------------------------------------------------------------------------
(* cloning.py: pure parts *)

Error(type, msg) == Some([type |-> type, msg |-> msg])

\* _get_status_code: the code of the first status line of the response, as an int
GetStatusCode(response) == StrToInt(response[1][2])

\* _check_repo_exists, lines 154-177: the argument vector of the curl probe
CurlArgs(url) ==
    LET base == << <<"curl">>, <<"-I">>, <<"-L">> >>
    IN  IF Contains(url, <<"@">>) /\ Contains(url, SchemeSep)
        THEN LET protocol_part == Split1(url, SchemeSep)[1]
                 rest == Split1(url, SchemeSep)[2]
             IN  IF Contains(rest, <<"@">>)
                 THEN LET auth_part == Split1(rest, <<"@">>)[1]
                          domain_part == Split1(rest, <<"@">>)[2]
                          safe_url == protocol_part \o SchemeSep \o domain_part
                      IN  IF ~Contains(auth_part, <<":">>) /\ Len(auth_part) > TokenMinLen
                          THEN base \o << <<"-H">>,
                                          <<"Authorization: token ">> \o auth_part,
                                          safe_url >>
                          ELSE base \o << <<"-u">>, auth_part, safe_url >>
                 ELSE base \o <<url>>
        ELSE base \o <<url>>

\* _check_repo_exists with line 189 reading "if status_code == 200": a redirect
\* answer no longer counts as found
ProbeVerdictNo301(rc, response) ==
    IF rc # "ok" THEN "false"
    ELSE IF GetStatusCode(response) = 200 THEN "true"
    ELSE IF GetStatusCode(response) \in {301, 404, 302, 401, 403} THEN "false"
    ELSE "raise"

\* _check_repo_exists with lines 192-199 collapsed to "return False": every
\* status that is not a success counts as absence
ProbeVerdictLenient(rc, response) ==
    IF rc # "ok" THEN "false"
    ELSE IF GetStatusCode(response) \in {200, 301} THEN "true"
    ELSE "false"

\* _check_repo_exists with line 192 reading "in (404, 302)": 401 and 403 fall
\* through to the unexpected-status error
ProbeVerdictDeniedIsError(rc, response) ==
    IF rc # "ok" THEN "false"
    ELSE IF GetStatusCode(response) \in {200, 301} THEN "true"
    ELSE IF GetStatusCode(response) \in {404, 302} THEN "false"
    ELSE "raise"

\* _check_repo_exists, lines 186-199: "true", "false" or "raise" (RuntimeError)
ProbeVerdict(rc, response) ==
    IF rc # "ok" THEN "false"
    ELSE IF GetStatusCode(response) \in {200, 301} THEN "true"
    ELSE IF GetStatusCode(response) \in {404, 302, 401, 403} THEN "false"
    ELSE "raise"

UnexpectedStatus(response) ==
    Error("RuntimeError", <<"Unexpected status code: ">> \o IntToStr(GetStatusCode(response)))

\* _run_command, line 312: the error of a command that exits non-zero
CommandFailed(args, stderr) ==
    Error("RuntimeError",
          <<"Command failed: ">> \o Join(args, <<" ">>) \o <<"\nError: ">> \o stderr)

\* check_git_installed, lines 334-339
GitNotAccessible(stderr) ==
    Error("RuntimeError",
          <<"Git is not installed or not accessible: ">>
              \o (IF stderr # <<>> THEN stderr ELSE <<"Git command not found">>))
GitNotInstalled ==
    Error("RuntimeError", <<"Git is not installed. Please install Git before proceeding.">>)

\* clone_repo, line 75
PartialClone(c) == c.subpath # <<"/">>

\* clone_repo, lines 86-89
AuthenticatedUrl(c) ==
    IF Truthy(c.github_token) /\ Contains(c.url, GithubCom) /\ StartsWith(c.url, HttpsPrefix)
    THEN HttpsPrefix \o Val(c.github_token) \o <<"@">> \o From(c.url, 8)
    ELSE c.url

\* clone_repo, lines 92 and 113: authenticated_url if github_token else url
EffectiveUrl(c) == IF Truthy(c.github_token) THEN AuthenticatedUrl(c) ELSE c.url

\* clone_repo with lines 94-99 reduced to the else branch: one message, token or
\* not
RepoNotFoundPlain(c) ==
    Error("ValueError",
          <<"Repository not found, make sure it is public or provide a GitHub token.">>)

\* clone_repo, lines 94-99
RepoNotFound(c) ==
    IF Truthy(c.github_token)
    THEN Error("ValueError",
               <<"Repository not found or access denied. Check your GitHub token permissions.">>)
    ELSE Error("ValueError",
               <<"Repository not found, make sure it is public or provide a GitHub token.">>)

\* clone_repo with line 108 reading "branch not in ('main', 'master')": the
\* default names are compared as written
CloneCmdCaseSensitive(c) ==
    << <<"git">>, <<"clone">>, <<"--single-branch">> >>
    \o (IF PartialClone(c) THEN << <<"--filter=blob:none">>, <<"--sparse">> >> ELSE <<>>)
    \o (IF ~Truthy(c.commit)
        THEN << <<"--depth=1">> >>
             \o (IF Truthy(c.branch) /\ Val(c.branch) \notin {BrMain, BrMaster}
                 THEN << <<"--branch">>, Val(c.branch) >>
                 ELSE <<>>)
        ELSE <<>>)
    \o << EffectiveUrl(c), c.local_path >>

\* clone_repo, lines 101-113
CloneCmd(c) ==
    << <<"git">>, <<"clone">>, <<"--single-branch">> >>
    \o (IF PartialClone(c) THEN << <<"--filter=blob:none">>, <<"--sparse">> >> ELSE <<>>)
    \o (IF ~Truthy(c.commit)
        THEN << <<"--depth=1">> >>
             \o (IF Truthy(c.branch) /\ Lower(Val(c.branch)) \notin {BrMain, BrMaster}
                 THEN << <<"--branch">>, Val(c.branch) >>
                 ELSE <<>>)
        ELSE <<>>)
    \o << EffectiveUrl(c), c.local_path >>

\* clone_repo, lines 122-125: the sparse-checkout target
SparseTarget(c) ==
    IF c.blob THEN DropLast(LStrip(c.subpath, "/")) ELSE LStrip(c.subpath, "/")

\* clone_repo, lines 118-128: the follow-up commands, in order (the code builds one)
CheckoutCmds(c) ==
    IF Truthy(c.commit) \/ PartialClone(c)
    THEN << << <<"git">>, <<"-C">>, c.local_path >>
            \o (IF PartialClone(c)
                THEN << <<"sparse-checkout">>, <<"set">>, SparseTarget(c) >>
                ELSE <<>>)
            \o (IF Truthy(c.commit) THEN << <<"checkout">>, Val(c.commit) >> ELSE <<>>) >>
    ELSE <<>>


----------------------------------------------------------------------------
(* Events: what the program did to its environment, in order *)

\* a spawned process: its argument vector, how it ended, what it wrote to stdout
SpawnOut(argv, outcome, stdout) ==
    [op |-> "spawn", argv |-> argv, outcome |-> outcome, stdout |-> stdout]
SpawnEvent(argv, outcome) == SpawnOut(argv, outcome, <<>>)
MakedirsEvent(path, outcome) ==
    [op |-> "makedirs", argv |-> <<path>>, outcome |-> outcome, stdout |-> <<>>]

\* the spawned processes, in order
Spawned == SelectSeq(events, LAMBDA e : e.op = "spawn")

----------------------------------------------------------------------------
(* cloning.py: clone_repo, one action per await *)

CloneConfigs ==
    [url : CloneUrls, local_path : {LocalPath}, commit : CloneCommits,
     branch : CloneBranches, subpath : CloneSubpaths, blob : BOOLEAN,
     github_token : Tokens]

\* the tasks that may list branches concurrently
Tasks == {"t1", "t2"}

NoConfig == [url |-> <<>>, local_path |-> <<>>, commit |-> None, branch |-> None,
             subpath |-> <<"/">>, blob |-> FALSE, github_token |-> None]
FetchIdle ==
    /\ fpc = [t \in Tasks |-> "idle"]
    /\ furl = [t \in Tasks |-> <<>>]
    /\ flog = [t \in Tasks |-> <<>>]
    /\ fout = [t \in Tasks |-> [stdout |-> <<>>, result |-> <<>>, raised |-> None]]
    /\ store = {}

NoQuery == [user_name |-> None, repo_name |-> None, url |-> None, host |-> <<>>,
            local_path |-> <<>>, subpath |-> <<"/">>, type |-> None, branch |-> None, commit |-> None,
            remaining_parts |-> <<>>, github_token |-> None]
NoInput == [source |-> [scheme |-> <<>>, host |-> <<>>, segs |-> <<>>, query |-> <<>>],
            github_token |-> None, GITHUB_TOKEN |-> <<>>, from_web |-> FALSE]
NoDest == [segs |-> <<>>, paths |-> <<>>]
DestIdle ==
    /\ uuids = 0
    /\ dest = [t \in Tasks |-> NoDest]
ParseIdle ==
    /\ input = NoInput
    /\ domain = 0
    /\ query = NoQuery
    /\ warned = <<>>

CloneInit ==
    /\ entry = "clone"
    /\ config \in CloneConfigs
    /\ pc = "makedirs"
    /\ err = None
    /\ events = <<>>
    /\ ParseIdle
    /\ FetchIdle
    /\ DestIdle

Raise(e) == pc' = "raised" /\ err' = e

\* lines 78-83: os.makedirs(parent_dir, exist_ok=True)
CloneMakedirs ==
    /\ pc = "makedirs"
    /\ \E outcome \in {"ok", "oserror"} :
        /\ events' = Append(events, MakedirsEvent(Parent(config.local_path), outcome))
        /\ IF outcome = "ok"
           THEN pc' = "probe" /\ err' = err
           ELSE Raise(Error("OSError",
                        <<"Failed to create parent directory ">>
                            \o Parent(config.local_path) \o <<": ">> \o <<"errno">>))
    /\ UNCHANGED <<entry, config, parseVars, fetchVars, destVars>>

\* lines 92-99 with _check_repo_exists, lines 154-199
CloneProbe ==
    /\ pc = "probe"
    /\ \/ \E out \in ProbeOutcomes :
            /\ events' = Append(events,
                    SpawnOut(CurlArgs(EffectiveUrl(config)), out.rc, out.response))
            /\ CASE ProbeVerdict(out.rc, out.response) = "true" ->
                        pc' = "clone_check_git" /\ err' = err
                 [] ProbeVerdict(out.rc, out.response) = "false" -> Raise(RepoNotFound(config))
                 [] OTHER -> Raise(UnexpectedStatus(out.response))
       \/ /\ events' = Append(events, SpawnEvent(CurlArgs(EffectiveUrl(config)), "startfail"))
          /\ Raise(Error("OSError", <<"curl: spawn failed">>))
    /\ UNCHANGED <<entry, config, parseVars, fetchVars, destVars>>

\* _run_command, line 301, with check_git_installed, lines 326-339
CheckGitInstalled(at, next) ==
    /\ pc = at
    /\ \E outcome \in GitVersionOutcomes, stderr \in StderrTexts :
        /\ events' = Append(events, SpawnEvent(<< <<"git">>, <<"--version">> >>, outcome))
        /\ CASE outcome = "ok" -> pc' = next /\ err' = err
             [] outcome = "notfound" -> Raise(GitNotInstalled)
             [] OTHER -> Raise(GitNotAccessible(stderr))
    /\ UNCHANGED <<entry, config, parseVars, fetchVars, destVars>>

\* _run_command without lines 310-312: the exit code of the command is not
\* looked at
ExecCommandIgnoreExit(at, args, next) ==
    /\ pc = at
    /\ \E outcome \in CommandOutcomes :
        /\ events' = Append(events, SpawnEvent(args, outcome))
        /\ CASE outcome \in {"ok", "nonzero"} -> pc' = next /\ err' = err
             [] OTHER -> Raise(Error("OSError", <<"git: spawn failed">>))
    /\ UNCHANGED <<entry, config, parseVars, fetchVars, destVars>>

\* _run_command, lines 304-314
ExecCommand(at, args, next) ==
    /\ pc = at
    /\ \E outcome \in CommandOutcomes, stderr \in StderrTexts :
        /\ events' = Append(events, SpawnEvent(args, outcome))
        /\ CASE outcome = "ok" -> pc' = next /\ err' = err
             [] outcome = "nonzero" -> Raise(CommandFailed(args, stderr))
             [] OTHER -> Raise(Error("OSError", <<"git: spawn failed">>))
    /\ UNCHANGED <<entry, config, parseVars, fetchVars, destVars>>

\* line 116: await _run_command(*clone_cmd)
CloneCheckGit == CheckGitInstalled("clone_check_git", "clone_run")
CloneRun ==
    ExecCommand("clone_run", CloneCmd(config),
                IF CheckoutCmds(config) # <<>> THEN "checkout_check_git" ELSE "done")

\* line 131: await _run_command(*checkout_cmd)
CheckoutCheckGit == CheckGitInstalled("checkout_check_git", "checkout_run")
CheckoutRun ==
    /\ CheckoutCmds(config) # <<>>
    /\ ExecCommand("checkout_run", CheckoutCmds(config)[1], "done")

\* line 11: the seconds clone_repo is given by @async_timeout(TIMEOUT)
TIMEOUT == 60

\* utils.timeout_wrapper.async_timeout: the error raised in place of the
\* cancelled call when the time is up
TimeoutError(seconds) ==
    Error("Timeout", <<"Operation timed out after ">> \o IntToStr(seconds) \o <<" seconds">>)

\* the command clone_repo is waiting for at the given position
InFlightCmd(at, c) ==
    CASE at = "probe" -> CurlArgs(EffectiveUrl(c))
      [] at = "clone_run" -> CloneCmd(c)
      [] at = "checkout_run" -> CheckoutCmds(c)[1]
      [] OTHER -> << <<"git">>, <<"--version">> >>

\* lines 49-50 with _check_repo_exists, line 183, check_git_installed, line 333,
\* and _run_command, line 309: the time is up while clone_repo waits in
\* proc.communicate(); the wait is cancelled, no handler around it ends the
\* process, and the timeout error leaves clone_repo
CloneTimeout ==
    /\ entry = "clone"
    /\ pc \in {"probe", "clone_check_git", "clone_run", "checkout_check_git", "checkout_run"}
    /\ events' = Append(events, SpawnEvent(InFlightCmd(pc, config), "running"))
    /\ Raise(TimeoutError(TIMEOUT))
    /\ UNCHANGED <<entry, config, parseVars, fetchVars, destVars>>

CloneNext ==
    \/ CloneMakedirs
    \/ CloneProbe
    \/ CloneCheckGit
    \/ CloneRun
    \/ CheckoutCheckGit
    \/ CheckoutRun
    \/ CloneTimeout

----------------------------------------------------------------------------
(* cloning.py: fetch_remote_branch_list, one action per await, per task *)

FetchUrlTokenLong == HttpsPrefix \o LongToken \o <<"@">> \o From(UrlGithub, 8)
FetchUrlTokenShort == HttpsPrefix \o ShortToken \o <<"@">> \o From(UrlGithub, 8)
FetchUrls == {UrlGithub, FetchUrlTokenLong, FetchUrlTokenShort}

RefsHeads == <<"r", "e", "f", "s", "/", "h", "e", "a", "d", "s", "/">>
BrFeatureX == <<"f", "e", "a", "t", "u", "r", "e", "/", "x">>
BrFeature == <<"f", "e", "a", "t", "u", "r", "e">>
HeadLine(name) == <<"<sha>", "\t">> \o RefsHeads \o name
\* outputs of git ls-remote --heads: a sequence of lines
LsRemoteStdouts ==
    { << HeadLine(BrFeatureX), HeadLine(BrMain) >>,
      << HeadLine(BrFeature), HeadLine(BrFeatureX), <<>> >>,
      << <<"warning: redirecting">>, HeadLine(BrDev) >>,
      <<>> }

\* lines 275-279: the branch names of the decoded output
RECURSIVE BranchNames(_)
BranchNames(lines) ==
    IF lines = <<>> THEN <<>>
    ELSE (IF LStrip(Head(lines), " ") # <<>> /\ Contains(Head(lines), RefsHeads)
          THEN <<Split1(Head(lines), RefsHeads)[2]>>
          ELSE <<>>)
         \o BranchNames(Tail(lines))

\* line 215: the url is handled as an authenticated one
IsAuthenticatedUrl(url) ==
    Contains(url, <<"@">>) /\ Contains(url, SchemeSep) /\ StartsWith(url, HttpsPrefix)
\* lines 217-218
AuthPart(url) == Split1(Split1(url, SchemeSep)[2], <<"@">>)[1]
DomainPart(url) == Split1(Split1(url, SchemeSep)[2], <<"@">>)[2]
\* line 223
IsTokenAuth(url) ==
    IsAuthenticatedUrl(url)
    /\ ~Contains(AuthPart(url), <<":">>) /\ Len(AuthPart(url)) > TokenMinLen
\* line 241
CleanUrl(url) == Split1(url, SchemeSep)[1] \o SchemeSep \o DomainPart(url)
\* line 237: the credential description fed to git credential approve / reject:
\* host = domain_part.split('/')[0], username = auth_part
CredentialInput(url) ==
    [host |-> IF Contains(DomainPart(url), <<"/">>)
              THEN Split1(DomainPart(url), <<"/">>)[1]
              ELSE DomainPart(url),
     username |-> AuthPart(url)]

GitConfigCmd ==
    << <<"git">>, <<"config">>, <<"--global">>, <<"--replace-all">>,
       <<"credential.helper">>, <<"store">> >>
LsRemoteCmd(url) == << <<"git">>, <<"ls-remote">>, <<"--heads">>, url >>
CredentialCmd(verb) == << <<"git">>, <<"credential">>, <<verb>> >>

FetchInit ==
    /\ entry = "fetch"
    /\ config = NoConfig
    /\ pc = "idle"
    /\ err = None
    /\ events = <<>>
    /\ ParseIdle
    /\ fpc = [t \in Tasks |-> "start"]
    /\ furl \in [Tasks -> FetchUrls]
    /\ flog = [t \in Tasks |-> <<>>]
    /\ fout = [t \in Tasks |-> [stdout |-> <<>>, result |-> <<>>, raised |-> None]]
    /\ store = {}
    /\ DestIdle

FGoto(t, label) == fpc' = [fpc EXCEPT ![t] = label]
FLog(t, argv, outcome) == flog' = [flog EXCEPT ![t] = Append(@, SpawnEvent(argv, outcome))]
FRaise(t, e) == fpc' = [fpc EXCEPT ![t] = "raised"] /\ fout' = [fout EXCEPT ![t].raised = e]
FKeep == UNCHANGED <<entry, events, pc, err, config, parseVars, furl, destVars>>

\* lines 215-228, 259-271: which way the url is handled
FetchStart(t) ==
    /\ fpc[t] = "start"
    /\ FGoto(t, IF IsTokenAuth(furl[t]) THEN "config_check_git"
                ELSE IF IsAuthenticatedUrl(furl[t]) THEN "plain_spawn"
                ELSE "run_check_git")
    /\ UNCHANGED <<flog, fout, store>>
    /\ FKeep

\* _run_command's check_git_installed, for lines 228 and 271
FetchCheckGit(t) ==
    /\ fpc[t] \in {"config_check_git", "run_check_git"}
    /\ \E outcome \in GitVersionOutcomes, stderr \in StderrTexts :
        /\ FLog(t, << <<"git">>, <<"--version">> >>, outcome)
        /\ CASE outcome = "ok" ->
                    /\ FGoto(t, IF fpc[t] = "config_check_git" THEN "config_run" ELSE "run_exec")
                    /\ fout' = fout
             [] outcome = "notfound" -> FRaise(t, GitNotInstalled)
             [] OTHER -> FRaise(t, GitNotAccessible(stderr))
    /\ UNCHANGED store
    /\ FKeep

\* line 228: _run_command("git", "config", "--global", ...)
FetchConfigHelper(t) ==
    /\ fpc[t] = "config_run"
    /\ \E outcome \in CommandOutcomes, stderr \in StderrTexts :
        /\ FLog(t, GitConfigCmd, outcome)
        /\ CASE outcome = "ok" -> FGoto(t, "approve") /\ fout' = fout
             [] outcome = "nonzero" -> FRaise(t, CommandFailed(GitConfigCmd, stderr))
             [] OTHER -> FRaise(t, Error("OSError", <<"git: spawn failed">>))
    /\ UNCHANGED store
    /\ FKeep

\* lines 231-238 with a credential helper that stores nothing: approve succeeds
\* and the shared store is left as it was
FetchApproveNoWrite(t) ==
    /\ fpc[t] = "approve"
    /\ \E outcome \in CommandOutcomes :
        /\ FLog(t, CredentialCmd("approve"), outcome)
        /\ CASE outcome = "ok" ->
                    /\ store' = store
                    /\ FGoto(t, "lsremote_spawn") /\ fout' = fout
             [] outcome = "nonzero" ->
                    /\ store' = store
                    /\ FGoto(t, "lsremote_spawn") /\ fout' = fout
             [] OTHER ->
                    /\ store' = store
                    /\ FRaise(t, Error("OSError", <<"git: spawn failed">>))
    /\ FKeep

\* lines 231-238: git credential approve, fed the credential on stdin; its exit
\* code is not looked at
FetchApprove(t) ==
    /\ fpc[t] = "approve"
    /\ \E outcome \in CommandOutcomes :
        /\ FLog(t, CredentialCmd("approve"), outcome)
        /\ CASE outcome = "ok" ->
                    /\ store' = store \cup {CredentialInput(furl[t])}
                    /\ FGoto(t, "lsremote_spawn") /\ fout' = fout
             [] outcome = "nonzero" ->
                    /\ store' = store
                    /\ FGoto(t, "lsremote_spawn") /\ fout' = fout
             [] OTHER ->
                    /\ store' = store
                    /\ FRaise(t, Error("OSError", <<"git: spawn failed">>))
    /\ FKeep

\* lines 243-248: spawn git ls-remote --heads clean_url
FetchLsRemoteSpawn(t) ==
    /\ fpc[t] = "lsremote_spawn"
    /\ \/ /\ FLog(t, LsRemoteCmd(CleanUrl(furl[t])), "running")
          /\ FGoto(t, "lsremote_wait") /\ fout' = fout
       \/ /\ FLog(t, LsRemoteCmd(CleanUrl(furl[t])), "startfail")
          /\ FRaise(t, Error("OSError", <<"git: spawn failed">>))
    /\ UNCHANGED store
    /\ FKeep

\* line 249: stdout, _ = await proc.communicate(); the exit code is not looked at
FetchLsRemoteWait(t) ==
    /\ fpc[t] = "lsremote_wait"
    /\ \E outcome \in {"ok", "nonzero"}, stdout \in LsRemoteStdouts :
        /\ outcome = "nonzero" => stdout = <<>>
        /\ flog' = [flog EXCEPT ![t][Len(flog[t])].outcome = outcome]
        /\ fout' = [fout EXCEPT ![t].stdout = stdout]
    /\ FGoto(t, "reject")
    /\ UNCHANGED store
    /\ FKeep

\* line 249: the task is cancelled while it waits for git ls-remote
FetchCancelled(t) ==
    /\ fpc[t] = "lsremote_wait"
    /\ flog' = [flog EXCEPT ![t][Len(flog[t])].outcome = "cancelled"]
    /\ FRaise(t, Error("CancelledError", <<>>))
    /\ UNCHANGED store
    /\ FKeep

\* lines 252-258: git credential reject, fed the same credential
FetchReject(t) ==
    /\ fpc[t] = "reject"
    /\ \E outcome \in CommandOutcomes :
        /\ FLog(t, CredentialCmd("reject"), outcome)
        /\ CASE outcome = "ok" ->
                    /\ store' = store \ {CredentialInput(furl[t])}
                    /\ FGoto(t, "decode") /\ fout' = fout
             [] outcome = "nonzero" ->
                    /\ store' = store
                    /\ FGoto(t, "decode") /\ fout' = fout
             [] OTHER ->
                    /\ store' = store
                    /\ FRaise(t, Error("OSError", <<"git: spawn failed">>))
    /\ FKeep

\* lines 261-267: userinfo that is no token: plain git ls-remote with the url,
\* the exit code is not looked at
FetchPlain(t) ==
    /\ fpc[t] = "plain_spawn"
    /\ \/ \E outcome \in {"ok", "nonzero"}, stdout \in LsRemoteStdouts :
            /\ outcome = "nonzero" => stdout = <<>>
            /\ FLog(t, LsRemoteCmd(furl[t]), outcome)
            /\ fout' = [fout EXCEPT ![t].stdout = stdout]
            /\ FGoto(t, "decode")
       \/ /\ FLog(t, LsRemoteCmd(furl[t]), "startfail")
          /\ FRaise(t, Error("OSError", <<"git: spawn failed">>))
    /\ UNCHANGED store
    /\ FKeep

\* lines 270-271: no userinfo: _run_command("git", "ls-remote", "--heads", url)
FetchRun(t) ==
    /\ fpc[t] = "run_exec"
    /\ \E outcome \in CommandOutcomes, stdout \in LsRemoteStdouts, stderr \in StderrTexts :
        /\ outcome # "ok" => stdout = <<>>
        /\ outcome # "nonzero" => stderr = <<>>
        /\ FLog(t, LsRemoteCmd(furl[t]), outcome)
        /\ CASE outcome = "ok" ->
                    /\ fout' = [fout EXCEPT ![t].stdout = stdout]
                    /\ FGoto(t, "decode")
             [] outcome = "nonzero" -> FRaise(t, CommandFailed(LsRemoteCmd(furl[t]), stderr))
             [] OTHER -> FRaise(t, Error("OSError", <<"git: spawn failed">>))
    /\ UNCHANGED store
    /\ FKeep

\* lines 273-279
FetchReturn(t) ==
    /\ fpc[t] = "decode"
    /\ fout' = [fout EXCEPT ![t].result = BranchNames(fout[t].stdout)]
    /\ FGoto(t, "returned")
    /\ UNCHANGED <<flog, store>>
    /\ FKeep

FetchNext ==
    \E t \in Tasks :
        \/ FetchStart(t)
        \/ FetchCheckGit(t)
        \/ FetchConfigHelper(t)
        \/ FetchApprove(t)
        \/ FetchLsRemoteSpawn(t)
        \/ FetchLsRemoteWait(t)
        \/ FetchCancelled(t)
        \/ FetchReject(t)
        \/ FetchPlain(t)
        \/ FetchRun(t)
        \/ FetchReturn(t)

----------------------------------------------------------------------------
(* query_parsing.py: pure parts *)

Range(f) == {f[i] : i \in DOMAIN f}
Min(a, b) == IF a <= b THEN a ELSE b

SegBlob == <<"b", "l", "o", "b">>
SegTree == <<"t", "r", "e", "e">>
SegRaw == <<"r", "a", "w">>
RefEq == <<"r", "e", "f", "=">>
HexDigits == <<"0", "1", "2", "3", "4", "5", "6", "7", "8", "9", "a", "b", "c", "d", "e", "f", "A", "B", "C", "D", "E", "F">>
GitlabCom == <<"g", "i", "t", "l", "a", "b", ".", "c", "o", "m">>
BitbucketOrg == <<"b", "i", "t", "b", "u", "c", "k", "e", "t", ".", "o", "r", "g">>
SchemeHttps == <<"h", "t", "t", "p", "s">>
SchemeHttp == <<"h", "t", "t", "p">>

\* utils.query_parser_utils.KNOWN_GIT_HOSTS: the hosts a slug is tried on, in order
KNOWN_GIT_HOSTS == <<GithubCom, GitlabCom, BitbucketOrg>>

\* utils.query_parser_utils._is_valid_git_commit_hash: 7 to 40 hexadecimal characters
CommitHashMinLen == 7
CommitHashMaxLen == 40
IsValidGitCommitHash(s) ==
    /\ Len(s) >= CommitHashMinLen
    /\ Len(s) <= CommitHashMaxLen
    /\ \A i \in 1..Len(s) : s[i] \in Range(HexDigits)

\* utils.query_parser_utils._validate_url_scheme: only http and https
ValidScheme(scheme) == scheme \in {SchemeHttp, SchemeHttps}
\* utils.query_parser_utils._validate_host: a known host, or any domain with a dot
ValidHost(host) == host \in Range(KNOWN_GIT_HOSTS) \/ Contains(host, <<".">>)

\* utils.query_parser_utils._get_user_and_repo_from_path: the first two non-empty
\* path segments; fewer than two is a ValueError
NonEmptySegs(segs) == SelectSeq(segs, LAMBDA x : x # <<>>)
HasUserAndRepo(segs) == Len(NonEmptySegs(segs)) >= 2
UserName(segs) == NonEmptySegs(segs)[1]
RepoName(segs) == NonEmptySegs(segs)[2]

\* line 182 reading the owner for the first segment: what stands before the
\* owner is skipped
FirstSegmentOwner(src) == src.segs[1]

\* line 182: source.split("/")[0] of a source without a scheme
FirstSegment(src) == IF src.host # <<>> THEN src.host ELSE src.segs[1]

\* try_domains_for_user_and_repo with line 402 reading "token = github_token":
\* the token of the configuration is not looked at
ResolverTokenArgOnly(in) ==
    IF Truthy(in.github_token) THEN Val(in.github_token) ELSE <<>>

\* line 402: github_token or GITHUB_TOKEN
ResolverToken(in) ==
    IF Truthy(in.github_token) THEN Val(in.github_token) ELSE in.GITHUB_TOKEN

\* lines 411-414: the url probed on a host
Candidate(in, host) ==
    IF ResolverToken(in) # <<>> /\ host = GithubCom
    THEN HttpsPrefix \o ResolverToken(in) \o <<"@">> \o host
            \o <<"/">> \o UserName(in.source.segs) \o <<"/">> \o RepoName(in.source.segs)
    ELSE HttpsPrefix \o host
            \o <<"/">> \o UserName(in.source.segs) \o <<"/">> \o RepoName(in.source.segs)

\* lines 424-427
NoHostFound(in) ==
    IF ResolverToken(in) # <<>>
    THEN Error("ValueError", <<"Repository not found or access denied. Check if '">>
                \o UserName(in.source.segs) \o <<"/">> \o RepoName(in.source.segs)
                \o <<"' exists and your token has correct permissions.">>)
    ELSE Error("ValueError", <<"Could not find a public repository for '">>
                \o UserName(in.source.segs) \o <<"/">> \o RepoName(in.source.segs)
                \o <<"'. For private repositories, provide a GitHub token.">>)

\* line 202: parsed_url.path.split("/")[3:]
RemainingParts(segs) == SubSeq(segs, 3, Len(segs))

\* _parse_remote_repo with lines 226 and 242 reading "/".join(remaining_parts[2:]):
\* the subpath is the joined segments, without the leading "/"
PathRefNoSlash(rp) ==
    IF rp # <<>> /\ rp[1] \in {SegBlob, SegTree}
    THEN [type |-> Some(rp[1]),
          commit |-> IF Len(rp) > 1 /\ IsValidGitCommitHash(rp[2]) THEN Some(rp[2]) ELSE None,
          branch |-> IF Len(rp) > 1 /\ ~IsValidGitCommitHash(rp[2]) THEN Some(rp[2]) ELSE None,
          subpath |-> IF Len(rp) > 2
                      THEN LET sp == Join(SubSeq(rp, 3, Len(rp)), <<"/">>)
                           IN  IF ~EndsWith(sp, <<"/">>) /\ rp[1] = SegTree
                               THEN sp \o <<"/">> ELSE sp
                      ELSE <<"/">>]
    ELSE IF rp # <<>> /\ rp[1] = SegRaw /\ Len(rp) > 1
    THEN [type |-> Some(SegBlob),
          commit |-> IF IsValidGitCommitHash(rp[2]) THEN Some(rp[2]) ELSE None,
          branch |-> IF ~IsValidGitCommitHash(rp[2]) THEN Some(rp[2]) ELSE None,
          subpath |-> IF Len(rp) > 2
                      THEN Join(SubSeq(rp, 3, Len(rp)), <<"/">>)
                      ELSE <<"/">>]
    ELSE [type |-> None, commit |-> None, branch |-> None, subpath |-> <<"/">>]

\* lines 203-244: type, branch, commit and subpath read off the path
PathRef(rp) ==
    IF rp # <<>> /\ rp[1] \in {SegBlob, SegTree}
    THEN [type |-> Some(rp[1]),
          commit |-> IF Len(rp) > 1 /\ IsValidGitCommitHash(rp[2]) THEN Some(rp[2]) ELSE None,
          branch |-> IF Len(rp) > 1 /\ ~IsValidGitCommitHash(rp[2]) THEN Some(rp[2]) ELSE None,
          subpath |-> IF Len(rp) > 2
                      THEN LET sp == <<"/">> \o Join(SubSeq(rp, 3, Len(rp)), <<"/">>)
                           IN  IF ~EndsWith(sp, <<"/">>) /\ rp[1] = SegTree
                               THEN sp \o <<"/">> ELSE sp
                      ELSE <<"/">>]
    ELSE IF rp # <<>> /\ rp[1] = SegRaw /\ Len(rp) > 1
    THEN [type |-> Some(SegBlob),
          commit |-> IF IsValidGitCommitHash(rp[2]) THEN Some(rp[2]) ELSE None,
          branch |-> IF ~IsValidGitCommitHash(rp[2]) THEN Some(rp[2]) ELSE None,
          subpath |-> IF Len(rp) > 2
                      THEN <<"/">> \o Join(SubSeq(rp, 3, Len(rp)), <<"/">>)
                      ELSE <<"/">>]
    ELSE [type |-> None, commit |-> None, branch |-> None, subpath |-> <<"/">>]

\* line 252: part.split("=")[1]
RefValue(part) ==
    LET rest == Split1(part, <<"=">>)[2]
    IN  IF Contains(rest, <<"=">>) THEN Split1(rest, <<"=">>)[1] ELSE rest

\* lines 248-252: every ref=<name> part of the query string sets the branch
RECURSIVE QueryRef(_, _)
QueryRef(parts, branch) ==
    IF parts = <<>> THEN branch
    ELSE QueryRef(Tail(parts),
                  IF StartsWith(Head(parts), RefEq) THEN Some(RefValue(Head(parts)))
                  ELSE branch)

\* config.py, line 14: TMP_BASE_PATH, with tempfile.gettempdir() = "/tmp"
TMP_BASE_PATH == <<"/", "t", "m", "p", "/", "g", "i", "t", "i", "n", "g", "e", "s", "t">>
\* line 196: str(uuid.uuid4()), the n-th identifier the process draws. uuid4 is
\* modelled by its contract: a value that no earlier call returned.
Uuid4(n) == <<"i", "d">> \o IntToStr(n)

\* lines 197-198 with local_path = TMP_BASE_PATH / slug: the identifier is left out
DestPathNoId(id, segs) ==
    TMP_BASE_PATH \o <<"/">> \o UserName(segs) \o <<"-">> \o RepoName(segs)

\* lines 197-198: slug = f"{user_name}-{repo_name}", TMP_BASE_PATH / _id / slug
DestPath(id, segs) ==
    TMP_BASE_PATH \o <<"/">> \o id \o <<"/">> \o UserName(segs) \o <<"-">> \o RepoName(segs)

\* lines 196-198 in a single resolution; its identifier is written "id"
QueryLocalPath(segs) == DestPath(<<"i", "d">>, segs)

\* lines 193-252: the query after the host is known, before any branch detection
PathQuery(in, host) ==
    LET segs == in.source.segs
        ref == PathRef(RemainingParts(segs))
    IN  [user_name |-> Some(UserName(segs)),
         repo_name |-> Some(RepoName(segs)),
         url |-> Some(HttpsPrefix \o Lower(host) \o <<"/">> \o UserName(segs)
                        \o <<"/">> \o RepoName(segs)),
         host |-> Lower(host),
         local_path |-> QueryLocalPath(segs),
         subpath |-> ref.subpath,
         type |-> ref.type,
         branch |-> QueryRef(in.source.query, ref.branch),
         commit |-> ref.commit,
         remaining_parts |-> RemainingParts(segs),
         github_token |-> in.github_token]

\* line 255: if not branch and not commit
NeedsBranchDetection(q) == ~Truthy(q.branch) /\ ~Truthy(q.commit)

WarnFetchFailed == "RuntimeWarning: Warning: Failed to fetch branch list"
WarnDefaultBranch == "UserWarning: Failed to determine default branch"

\* _configure_branch_and_subpath with line 297 reading "return None": the warning
\* is given and no segment is taken as the branch
AfterFetchRuntimeErrorNoFallback(q, w) ==
    [query |-> q, warned |-> Append(w, WarnFetchFailed)]

\* lines 295-297 (and 258-259 when pop(0) finds the list empty): the fetch raised
\* RuntimeError
AfterFetchRuntimeError(q, w) ==
    IF q.remaining_parts # <<>>
    THEN [query |-> [q EXCEPT !.branch = Some(Head(q.remaining_parts)),
                              !.remaining_parts = Tail(q.remaining_parts)],
          warned |-> Append(w, WarnFetchFailed)]
    ELSE [query |-> q, warned |-> w \o <<WarnFetchFailed, WarnDefaultBranch>>]

\* lines 258-259: the fetch raised another exception
AfterFetchOtherError(q, w) == [query |-> q, warned |-> Append(w, WarnDefaultBranch)]

\* lines 299-306: pop segments until their join is a branch name
RECURSIVE GreedyMatch(_, _, _)
GreedyMatch(branch, remaining_parts, branches) ==
    IF remaining_parts = <<>> THEN [branch |-> None, remaining_parts |-> <<>>]
    ELSE LET longer == Append(branch, Head(remaining_parts))
         IN  IF Join(longer, <<"/">>) \in Range(branches)
             THEN [branch |-> Some(Join(longer, <<"/">>)),
                   remaining_parts |-> Tail(remaining_parts)]
             ELSE GreedyMatch(longer, Tail(remaining_parts), branches)

\* _configure_branch_and_subpath with line 306 reading "return branch[0]": without
\* a match the first segment is taken for the branch
AfterFetchOkGuess(q, w, branches) ==
    LET m == GreedyMatch(<<>>, q.remaining_parts, branches)
    IN  [query |-> [q EXCEPT !.branch = IF m.branch = None /\ q.remaining_parts # <<>>
                                        THEN Some(Head(q.remaining_parts))
                                        ELSE m.branch,
                             !.remaining_parts = m.remaining_parts],
         warned |-> w]

\* lines 257, 299-306: the fetch returned the branch list
AfterFetchOk(q, w, branches) ==
    LET m == GreedyMatch(<<>>, q.remaining_parts, branches)
    IN  [query |-> [q EXCEPT !.branch = m.branch, !.remaining_parts = m.remaining_parts],
         warned |-> w]

----------------------------------------------------------------------------
(* query_parsing.py: _parse_remote_repo, one action per await *)

Owner == <<"o">>
Repo == <<"r">>
SegFeature == <<"f", "e", "a", "t", "u", "r", "e">>
SegX == <<"x">>
SegSub == <<"s", "u", "b">>
SegDir == <<"d", "i", "r">>
SegSrc == <<"s", "r", "c">>
QueryRefDev == <<"r", "e", "f", "=", "d", "e", "v">>
QueryRefEmpty == <<"r", "e", "f", "=">>
QueryTab == <<"t", "a", "b", "=", "r", "e", "a", "d", "m", "e">>
\* ref=v=1: a ref whose name holds a "="
QueryRefWithEq == <<"r", "e", "f", "=", "v", "=", "1">>
\* a full-length commit hash
CommitFull == [i \in 1..CommitHashMaxLen |-> IF i % 2 = 1 THEN "a" ELSE "1"]

\* the most path segments after owner/repo a source of the model has
MaxParts == 4
Paths ==
    { <<SegFeature, SegX, SegSub, SegDir>>,
      <<SegBlob, CommitAbc, FilePy>>,
      <<SegBlob, CommitFull, FilePy>>,
      <<SegBlob, BrMain, FilePy, <<>> >>,
      <<SegTree, BrMain, SegSrc, SegSub, SegDir>>,
      <<SegTree, CommitAbc, SegSrc>>,
      <<SegRaw, CommitAbc, FilePy>>,
      <<SegRaw, BrDev, FilePy>>,
      <<BrDev, SegSrc>> }
PathPrefixes == {SubSeq(p, 1, Min(Len(p), n)) : p \in Paths, n \in 0..MaxParts}
QueryStrings == { <<>>, <<QueryRefDev>>, <<QueryTab, QueryRefEmpty>>, <<QueryRefWithEq>> }

\* a slug, a full url, a url without its scheme
ParseSources ==
    { [scheme |-> k[1], host |-> k[2], segs |-> <<Owner, Repo>> \o rp, query |-> qs] :
        k \in { <<<<>>, <<>>>>, <<SchemeHttps, GithubCom>>, <<<<>>, GitlabCom>> },
        rp \in PathPrefixes, qs \in QueryStrings }
\* sources given without the web flag: local paths (".", an absolute path, a
\* relative path with "..", a relative path with a trailing "/", a path that
\* reads like a slug), a full url, a url without its scheme
SegDot == <<".">>
SegDotDot == <<".", ".">>
SegHome == <<"h", "o", "m", "e">>
SegProj == <<"p", "r", "o", "j">>
PlainSources ==
    { [scheme |-> <<>>, host |-> <<>>, segs |-> sg, query |-> <<>>] :
        sg \in { <<SegDot>>, << <<>>, SegHome, SegProj >>, <<SegDotDot, SegProj, SegSrc>>,
                 <<SegProj, SegSub, <<>> >>, <<Owner, Repo>> } }
    \cup { [scheme |-> SchemeHttps, host |-> GithubCom, segs |-> <<Owner, Repo>>, query |-> <<>>],
           [scheme |-> <<>>, host |-> GitlabCom, segs |-> <<Owner, Repo, BrDev>>, query |-> <<>>] }

\* (github_token, config.GITHUB_TOKEN)
TokenPairs ==
    { <<None, <<>>>>, <<Some(LongToken), <<>>>>, <<None, LongToken>>, <<Some(ShortToken), <<>>>> }
ParseInputs ==
    { [source |-> src, github_token |-> tp[1], GITHUB_TOKEN |-> tp[2], from_web |-> TRUE] :
        src \in ParseSources, tp \in TokenPairs }
    \cup { [source |-> src, github_token |-> tok, GITHUB_TOKEN |-> <<>>, from_web |-> FALSE] :
             src \in PlainSources, tok \in {None, Some(ShortToken)} }

ParseInit ==
    /\ entry = "parse"
    /\ input \in ParseInputs
    /\ pc = "query_start"
    /\ err = None
    /\ events = <<>>
    /\ domain = 0
    /\ query = NoQuery
    /\ warned = <<>>
    /\ config = NoConfig
    /\ FetchIdle
    /\ DestIdle

PKeep == UNCHANGED <<entry, config, input, fetchVars, destVars>>

\* the source as the string it was given as
SourceString(src) ==
    (IF src.scheme # <<>> THEN src.scheme \o SchemeSep ELSE <<>>)
    \o src.host
    \o (IF src.host # <<>> /\ src.segs # <<>> THEN <<"/">> ELSE <<>>)
    \o Join(src.segs, <<"/">>)
    \o (IF src.query # <<>> THEN <<"?">> \o Join(src.query, <<"&">>) ELSE <<>>)

\* parse_query, line 113: the source is parsed as a remote repository
IsRemoteSource(in) ==
    \/ in.from_web
    \/ in.source.scheme \in {SchemeHttps, SchemeHttp}
    \/ \E i \in 1..Len(KNOWN_GIT_HOSTS) : Contains(SourceString(in.source), KNOWN_GIT_HOSTS[i])

\* the working directory of the process
CwdSegs == << <<"w", "o", "r", "k">> >>

\* Path(path_str).resolve() on the "/"-separated parts of a path without
\* symbolic links: relative paths start at the working directory, empty and "."
\* parts are dropped, ".." drops the part before it
RECURSIVE Normalise(_, _)
Normalise(acc, parts) ==
    IF parts = <<>> THEN acc
    ELSE IF Head(parts) \in {<<>>, SegDot} THEN Normalise(acc, Tail(parts))
    ELSE IF Head(parts) = SegDotDot
    THEN Normalise(IF acc = <<>> THEN acc ELSE DropLast(acc), Tail(parts))
    ELSE Normalise(Append(acc, Head(parts)), Tail(parts))
Resolve(parts) ==
    <<"/">> \o Join(Normalise(IF parts # <<>> /\ Head(parts) = <<>> THEN <<>> ELSE CwdSegs,
                              parts),
                    <<"/">>)

\* _parse_local_dir_path with line 364 reading path_obj = Path(path_str): the path
\* is kept as it was given
LocalQueryUnresolved(in) ==
    [NoQuery EXCEPT !.local_path = Join(in.source.segs, <<"/">>),
                    !.github_token = in.github_token]

\* _parse_local_dir_path, lines 364-373, then parse_query, lines 132-147
LocalQuery(in) ==
    [NoQuery EXCEPT !.local_path = Resolve(in.source.segs),
                    !.github_token = in.github_token]

\* parse_query, lines 113-118: a remote source goes to _parse_remote_repo, any
\* other one is a local path
ParseQuery ==
    /\ pc = "query_start"
    /\ IF IsRemoteSource(input)
       THEN pc' = "parse_start" /\ query' = query
       ELSE pc' = "returned" /\ query' = LocalQuery(input)
    /\ UNCHANGED <<err, events, domain, warned>>
    /\ PKeep

\* lines 193-259 up to the first await: build the query, then return it or go and
\* fetch the branch list
HostKnown(host) ==
    /\ query' = PathQuery(input, host)
    /\ pc' = IF NeedsBranchDetection(PathQuery(input, host)) THEN "fetch_check_git"
             ELSE "returned"
    /\ err' = err

\* lines 172-191: scheme and host validation, or the start of the host resolution
ParseStart ==
    /\ pc = "parse_start"
    /\ LET src == input.source
       IN  IF src.scheme # <<>>
           THEN IF ~ValidScheme(src.scheme)
                THEN Raise(Error("ValueError", <<"Invalid URL scheme">>)) /\ query' = query
                ELSE IF ~ValidHost(Lower(src.host))
                THEN Raise(Error("ValueError", <<"Unknown domain">>)) /\ query' = query
                ELSE IF ~HasUserAndRepo(src.segs)
                THEN Raise(Error("ValueError", <<"Invalid repository URL">>)) /\ query' = query
                ELSE HostKnown(src.host)
           ELSE IF Contains(Lower(FirstSegment(src)), <<".">>)
           THEN IF ~ValidHost(Lower(FirstSegment(src)))
                THEN Raise(Error("ValueError", <<"Unknown domain">>)) /\ query' = query
                ELSE IF ~HasUserAndRepo(src.segs)
                THEN Raise(Error("ValueError", <<"Invalid repository URL">>)) /\ query' = query
                ELSE HostKnown(src.host)
           ELSE IF ~HasUserAndRepo(src.segs)
           THEN Raise(Error("ValueError", <<"Invalid repository URL">>)) /\ query' = query
           ELSE pc' = "resolve" /\ err' = err /\ query' = query
    /\ domain' = IF pc' = "resolve" THEN 1 ELSE domain
    /\ UNCHANGED <<events, warned>>
    /\ PKeep

\* try_domains_for_user_and_repo, lines 409-427: probe the next known host
ResolveProbe ==
    /\ pc = "resolve"
    /\ LET host == KNOWN_GIT_HOSTS[domain]
           argv == CurlArgs(Candidate(input, host))
       IN  \/ \E out \in ProbeOutcomes :
                /\ events' = Append(events, SpawnOut(argv, out.rc, out.response))
                /\ CASE ProbeVerdict(out.rc, out.response) = "true" ->
                            HostKnown(host) /\ domain' = domain
                     [] ProbeVerdict(out.rc, out.response) = "false" ->
                            IF domain < Len(KNOWN_GIT_HOSTS)
                            THEN domain' = domain + 1 /\ UNCHANGED <<pc, err, query>>
                            ELSE Raise(NoHostFound(input)) /\ UNCHANGED <<domain, query>>
                     [] OTHER ->
                            Raise(UnexpectedStatus(out.response))
                            /\ UNCHANGED <<domain, query>>
           \/ /\ events' = Append(events, SpawnEvent(argv, "startfail"))
              /\ Raise(Error("OSError", <<"curl: spawn failed">>))
              /\ UNCHANGED <<domain, query>>
    /\ UNCHANGED warned
    /\ PKeep

\* _configure_branch_and_subpath, line 294, through fetch_remote_branch_list, line
\* 271: _run_command's check_git_installed
ParseFetchCheckGit ==
    /\ pc = "fetch_check_git"
    /\ \E outcome \in GitVersionOutcomes :
        /\ events' = Append(events, SpawnEvent(<< <<"git">>, <<"--version">> >>, outcome))
        /\ IF outcome = "ok"
           THEN pc' = "fetch_run" /\ UNCHANGED <<query, warned>>
           ELSE /\ pc' = "returned"
                /\ query' = AfterFetchRuntimeError(query, warned).query
                /\ warned' = AfterFetchRuntimeError(query, warned).warned
    /\ UNCHANGED <<err, domain>>
    /\ PKeep

\* fetch_remote_branch_list, lines 270-279, then _configure_branch_and_subpath,
\* lines 295-306, and _parse_remote_repo, lines 257-259
ParseFetchRun ==
    /\ pc = "fetch_run"
    /\ \E outcome \in CommandOutcomes, stdout \in LsRemoteStdouts :
        /\ outcome # "ok" => stdout = <<>>
        /\ events' = Append(events, SpawnOut(LsRemoteCmd(Val(query.url)), outcome, stdout))
        /\ LET after == CASE outcome = "ok" ->
                                AfterFetchOk(query, warned, BranchNames(stdout))
                          [] outcome = "nonzero" -> AfterFetchRuntimeError(query, warned)
                          [] OTHER -> AfterFetchOtherError(query, warned)
           IN  query' = after.query /\ warned' = after.warned
    /\ pc' = "returned"
    /\ UNCHANGED <<err, domain>>
    /\ PKeep

\* ParsedQuery.extact_clone_config with line 67 reading "subpath='/'" (the
\* default of the field): the reference's subpath is not carried over
ExtractCloneConfigNoSubpath(q) ==
    [url |-> Val(q.url),
     local_path |-> q.local_path,
     commit |-> q.commit,
     branch |-> q.branch,
     subpath |-> <<"/">>,
     blob |-> q.type = Some(SegBlob),
     github_token |-> q.github_token]

\* ParsedQuery.extact_clone_config, lines 64-72
ExtractCloneConfig(q) ==
    [url |-> Val(q.url),
     local_path |-> q.local_path,
     commit |-> q.commit,
     branch |-> q.branch,
     subpath |-> q.subpath,
     blob |-> q.type = Some(SegBlob),
     github_token |-> q.github_token]

\* ParsedQuery.extact_clone_config, lines 61-72, called on the query returned;
\* line 61-62 raises ValueError for a query without url
ParseExtract ==
    /\ entry = "parse"
    /\ pc = "returned"
    /\ config = NoConfig
    /\ IF Truthy(query.url)
       THEN config' = ExtractCloneConfig(query) /\ UNCHANGED <<pc, err>>
       ELSE Raise(Error("ValueError", <<"The 'url' parameter is required.">>))
            /\ config' = config
    /\ UNCHANGED <<entry, events, parseVars, fetchVars, destVars>>

ParseNext ==
    \/ ParseQuery
    \/ ParseStart
    \/ ResolveProbe
    \/ ParseFetchCheckGit
    \/ ParseFetchRun
    \/ ParseExtract

----------------------------------------------------------------------------

(* Destination paths of concurrent resolutions *)

\* resolutions each task performs
MaxResolutions == 2

\* the owner/repo pairs the tasks resolve; both tasks may resolve the same one
DestSources == {<<Owner, Repo>>, <<Repo, Owner>>}

DestInit ==
    /\ entry = "dest"
    /\ config = NoConfig
    /\ pc = "idle"
    /\ err = None
    /\ events = <<>>
    /\ ParseIdle
    /\ FetchIdle
    /\ uuids = 0
    /\ dest \in [Tasks -> {[segs |-> s, paths |-> <<>>] : s \in DestSources}]

\* _parse_remote_repo, lines 196-198, run by task t: a uuid is drawn and the
\* destination of the clone is built from it (extact_clone_config hands it on
\* unchanged, line 67)
AssignDest(t) ==
    /\ entry = "dest"
    /\ Len(dest[t].paths) < MaxResolutions
    /\ uuids' = uuids + 1
    /\ dest' = [dest EXCEPT ![t].paths = Append(@, DestPath(Uuid4(uuids + 1), dest[t].segs))]
    /\ UNCHANGED <<entry, config, pc, err, events, parseVars, fetchVars>>

DestNext == \E t \in Tasks : AssignDest(t)

----------------------------------------------------------------------------

Init == CloneInit \/ ParseInit \/ FetchInit \/ DestInit
Next == CloneNext \/ ParseNext \/ FetchNext \/ DestNext
Spec == Init /\ [][Next]_vars

----------------------------------------------------------------------------
(* Properties *)

\* the argument vector holds the string tok somewhere in one of its arguments
ArgvHas(argv, tok) == \E i \in 1..Len(argv) : Contains(argv[i], tok)

\* C1: in every reachable state of a resolution, clone or branch listing given a
\* token, no argument vector of a spawned process contains the token value.
C1_TokenNeverInArgv ==
    /\ (entry = "clone" /\ Truthy(config.github_token)) =>
            \A i \in 1..Len(Spawned) : ~ArgvHas(Spawned[i].argv, Val(config.github_token))
    /\ (entry = "parse" /\ Truthy(input.github_token)) =>
            \A i \in 1..Len(Spawned) : ~ArgvHas(Spawned[i].argv, Val(input.github_token))
    /\ entry = "fetch" =>
            \A t \in Tasks : IsAuthenticatedUrl(furl[t]) =>
                \A i \in 1..Len(flog[t]) : ~ArgvHas(flog[t][i].argv, AuthPart(furl[t]))

\* C2: when a git command of a clone that was given a token exits non-zero, the
\* error raised carries the captured error stream, and the token value does not
\* appear in its text.
C2_CommandErrorRedacted ==
    (/\ entry = "clone" /\ pc = "raised" /\ Truthy(config.github_token)
     /\ Spawned # <<>>
     /\ Spawned[Len(Spawned)].outcome = "nonzero"
     /\ Spawned[Len(Spawned)].argv[1] = <<"git">>
     /\ Spawned[Len(Spawned)].argv[2] # <<"--version">>)
    => /\ \E stderr \in StderrTexts : EndsWith(Val(err).msg, <<"\nError: ">> \o stderr)
       /\ ~Contains(Val(err).msg, Val(config.github_token))

\* task t's approve wrote its entry / task t issued the revocation
WroteEntry(t) ==
    \E i \in 1..Len(flog[t]) :
        flog[t][i].argv = CredentialCmd("approve") /\ flog[t][i].outcome = "ok"
IssuedReject(t) ==
    \E i \in 1..Len(flog[t]) :
        flog[t][i].argv = CredentialCmd("reject") /\ flog[t][i].outcome # "startfail"
RejectDone(t) ==
    \E i \in 1..Len(flog[t]) :
        flog[t][i].argv = CredentialCmd("reject") /\ flog[t][i].outcome = "ok"
Ended(t) == fpc[t] \in {"returned", "raised"}

\* C3: a listing that wrote the credential-store entry has issued its revocation
\* by the time it returns or raises, whatever happened to git ls-remote; and once
\* it has ended, no entry written by it (and by no other task) remains.
C3_RejectAlwaysIssued ==
    entry = "fetch" =>
        \A t \in Tasks : (Ended(t) /\ WroteEntry(t)) =>
            /\ IssuedReject(t)
            /\ (RejectDone(t) /\ \A u \in Tasks \ {t} : ~WroteEntry(u)) =>
                    CredentialInput(furl[t]) \notin store

\* the sparse-checkout target the subpath stands for: the subpath without its
\* leading "/", and for a single file without a trailing "/"
SubpathTarget(c) ==
    LET p == From(c.subpath, 1)
    IN  IF c.blob /\ EndsWith(p, <<"/">>) THEN DropLast(p) ELSE p

\* the operands of the git subcommand of "git -C <path> <subcommand> ..."
GitSubcommand(argv) == IF Len(argv) >= 4 /\ argv[2] = <<"-C">> THEN argv[4] ELSE <<>>
GitOperands(argv) == SubSeq(argv, 5, Len(argv))

\* C9: the sparse-checkout target passed to git is the subpath without its
\* leading "/", a trailing "/" trimmed when the target is a single file.
C9_SparseTargetIsSubpath ==
    entry = "clone" =>
        \A i \in 1..Len(Spawned) :
            GitSubcommand(Spawned[i].argv) = <<"sparse-checkout">> =>
                /\ Len(Spawned[i].argv) >= 6
                /\ Spawned[i].argv[6] = SubpathTarget(config)

\* C10: after a clone that ended well with a pinned commit, a git checkout of that
\* commit was run in the working copy, and for a partial clone a sparse-checkout
\* set of the subpath too.
C10_PinnedCommitCheckedOut ==
    (entry = "clone" /\ pc = "done" /\ Truthy(config.commit)) =>
        /\ \E i \in 1..Len(Spawned) :
                /\ GitSubcommand(Spawned[i].argv) = <<"checkout">>
                /\ GitOperands(Spawned[i].argv) = <<Val(config.commit)>>
                /\ Spawned[i].outcome = "ok"
        /\ PartialClone(config) =>
                \E i \in 1..Len(Spawned) :
                    /\ GitSubcommand(Spawned[i].argv) = <<"sparse-checkout">>
                    /\ GitOperands(Spawned[i].argv) = << <<"set">>, SparseTarget(config) >>

\* the host probes of a resolution, in order
Probes == SelectSeq(events, LAMBDA e : e.op = "spawn" /\ e.argv[1] = <<"curl">>)
\* the source is an owner/repo slug: no scheme, no dot in the first segment
IsSlug(src) == src.scheme = <<>> /\ ~Contains(Lower(FirstSegment(src)), <<".">>)
\* the probe ran and its first status line reads 200 or 301
ProbeSucceeded(e) == e.outcome = "ok" /\ StrToInt(e.stdout[1][2]) \in {200, 301}
\* the probe ran and its first status line reads none of the statuses provided for
ProbeUnexpected(e) ==
    e.outcome = "ok" /\ StrToInt(e.stdout[1][2]) \notin {200, 301, 404, 302, 401, 403}

\* C4: for a slug the known hosts are probed in list order, the host returned is
\* the first one whose probe succeeded (200 or 301), and no host is probed after
\* a success.
C4_FirstSuccessfulHostWins ==
    (entry = "parse" /\ IsSlug(input.source)) =>
        /\ Len(Probes) <= Len(KNOWN_GIT_HOSTS)
        /\ \A i \in 1..Len(Probes) :
                /\ Probes[i].argv[Len(Probes[i].argv)]
                        = HttpsPrefix \o KNOWN_GIT_HOSTS[i] \o <<"/">> \o Owner \o <<"/">> \o Repo
                /\ i < Len(Probes) => ~ProbeSucceeded(Probes[i])
        /\ (Probes # <<>> /\ ProbeSucceeded(Probes[Len(Probes)])) =>
                pc # "resolve" /\ query.host = KNOWN_GIT_HOSTS[Len(Probes)]
        /\ query.host # <<>> => (Probes # <<>> /\ ProbeSucceeded(Probes[Len(Probes)]))
C4_Witness ==
    /\ entry = "parse" /\ IsSlug(input.source)
    /\ Len(Probes) = 2
    /\ query.host = KNOWN_GIT_HOSTS[2]
    /\ pc \in {"fetch_check_git", "returned"}

\* C5: a probe whose status is outside {200, 301, 404, 302, 401, 403} ends the
\* host resolution at once with the unexpected-status error: it is the last probe.
C5_UnexpectedStatusStops ==
    (entry = "parse" /\ IsSlug(input.source)) =>
        \A i \in 1..Len(Probes) : ProbeUnexpected(Probes[i]) =>
            /\ i = Len(Probes)
            /\ pc = "raised"
            /\ Val(err).type = "RuntimeError"
            /\ Val(err).msg = <<"Unexpected status code: ">> \o Probes[i].stdout[1][2]
C5_Witness ==
    /\ entry = "parse" /\ IsSlug(input.source)
    /\ Len(Probes) = 2
    /\ ProbeUnexpected(Probes[2])
    /\ pc = "raised"

\* C6: a reference the remote parser returns never has both branch and commit.
C6_BranchXorCommit ==
    (entry = "parse" /\ pc = "returned") => ~(Truthy(query.branch) /\ Truthy(query.commit))

\* the branch list was fetched / the fetch failed: the last spawn of a returned parse
LastSpawn == Spawned[Len(Spawned)]
FetchRan ==
    /\ entry = "parse" /\ pc = "returned" /\ Spawned # <<>>
    /\ LastSpawn.argv[1] = <<"git">>
FetchSucceeded == FetchRan /\ LastSpawn.argv[2] = <<"ls-remote">> /\ LastSpawn.outcome = "ok"
FetchFailed == FetchRan /\ LastSpawn.outcome # "ok"
\* the failure is one _run_command reports as RuntimeError: git is missing or
\* unusable, or git ls-remote exits non-zero
FetchFailedAsRuntimeError ==
    FetchFailed /\ (LastSpawn.argv[2] = <<"--version">> \/ LastSpawn.outcome = "nonzero")

\* the segments after owner/repo of the source
InputParts == RemainingParts(input.source.segs)
\* the lengths of the prefixes of the segments that name a branch of the list
MatchingPrefixes(parts, branches) ==
    {n \in 1..Len(parts) : Join(SubSeq(parts, 1, n), <<"/">>) \in Range(branches)}
FirstMatch(parts, branches) ==
    CHOOSE n \in MatchingPrefixes(parts, branches) :
        \A k \in MatchingPrefixes(parts, branches) : n <= k

\* C7: when the path gave no branch and no commit and the branch list was fetched,
\* the branch is the first accumulated prefix of the segments that is a branch
\* name, and the segments after it are the subpath; branches {feature/x, main}
\* and segments [feature, x, sub, dir] give branch feature/x, subpath /sub/dir.
C7_GreedyBranchAndSubpath ==
    (/\ FetchSucceeded
     /\ PathRef(InputParts).branch = None /\ PathRef(InputParts).commit = None
     /\ MatchingPrefixes(InputParts, BranchNames(LastSpawn.stdout)) # {})
    => LET n == FirstMatch(InputParts, BranchNames(LastSpawn.stdout))
       IN  /\ query.branch = Some(Join(SubSeq(InputParts, 1, n), <<"/">>))
           /\ query.subpath
                = <<"/">> \o Join(SubSeq(InputParts, n + 1, Len(InputParts)), <<"/">>)

HasArg(argv, arg) == \E i \in 1..Len(argv) : argv[i] = arg
\* the git clone commands spawned
IsGitClone(e) == e.op = "spawn" /\ Len(e.argv) >= 2 /\ e.argv[1] = <<"git">> /\ e.argv[2] = <<"clone">>
\* the command carries both partial/sparse flags, or neither
HasSparseFlags(argv) == HasArg(argv, <<"--filter=blob:none">>) /\ HasArg(argv, <<"--sparse">>)
HasNoSparseFlags(argv) == ~HasArg(argv, <<"--filter=blob:none">>) /\ ~HasArg(argv, <<"--sparse">>)

\* C11: a git clone command carries --filter=blob:none and --sparse if and only
\* if the subpath of the CloneConfig is not "/", and the CloneConfig built from a
\* returned reference has the reference's subpath, so that the command of that
\* config carries the flags exactly when the reference's subpath is not "/".
C11_SparseFlagsIffSubpath ==
    /\ entry = "clone" =>
            \A i \in 1..Len(Spawned) : IsGitClone(Spawned[i]) =>
                IF config.subpath = <<"/">>
                THEN HasNoSparseFlags(Spawned[i].argv)
                ELSE HasSparseFlags(Spawned[i].argv)
    /\ (entry = "parse" /\ config # NoConfig) =>
            /\ config.subpath = query.subpath
            /\ IF query.subpath = <<"/">>
               THEN HasNoSparseFlags(CloneCmd(config))
               ELSE HasSparseFlags(CloneCmd(config))
C11_Witness ==
    /\ entry = "parse" /\ config # NoConfig
    /\ query.subpath = SubSrcDir
    /\ HasSparseFlags(CloneCmd(config))

\* the branch name is one of the conventional default names, whatever its case
IsDefaultBranchName(name) == Lower(name) \in {BrMain, BrMaster}

\* C12: every git clone command has --single-branch; it has --depth=1 exactly
\* when no commit is pinned; and it has --branch only when no commit is pinned,
\* a branch is set and the branch is not main or master in any case, the
\* argument after --branch being that branch.
C12_CloneCommandShape ==
    entry = "clone" =>
        \A i \in 1..Len(Spawned) : IsGitClone(Spawned[i]) =>
            LET argv == Spawned[i].argv
            IN  /\ HasArg(argv, <<"--single-branch">>)
                /\ HasArg(argv, <<"--depth=1">>) <=> ~Truthy(config.commit)
                /\ \A k \in 1..Len(argv) : argv[k] = <<"--branch">> =>
                        /\ ~Truthy(config.commit)
                        /\ Truthy(config.branch)
                        /\ ~IsDefaultBranchName(Val(config.branch))
                        /\ k < Len(argv) /\ argv[k + 1] = Val(config.branch)
C12_Witness ==
    /\ entry = "clone"
    /\ config.branch = Some(BrDev) /\ config.commit = None
    /\ \E i \in 1..Len(Spawned) :
            /\ IsGitClone(Spawned[i])
            /\ HasArg(Spawned[i].argv, <<"--branch">>)
            /\ HasArg(Spawned[i].argv, <<"--depth=1">>)

\* C14: when the timeout ends a clone, the clone has raised the Timeout error and
\* no process it spawned is still running.
C14_TimeoutTerminatesProcess ==
    (entry = "clone" /\ pc = "raised" /\ Val(err).type = "Timeout") =>
        \A i \in 1..Len(Spawned) : Spawned[i].outcome # "running"

\* the steps of a clone, in order: the events but for the git --version checks
IsGitVersion(e) == e.op = "spawn" /\ e.argv = << <<"git">>, <<"--version">> >>
Steps == SelectSeq(events, LAMBDA e : ~IsGitVersion(e))
\* 1 directory creation, 2 existence probe, 3 clone command, 4 follow-up checkout
StepRank(e) ==
    CASE e.op = "makedirs" -> 1
      [] e.argv[1] = <<"curl">> -> 2
      [] IsGitClone(e) -> 3
      [] OTHER -> 4
\* the step ended well: the directory was made, the probe answered 200 or 301,
\* the command exited with 0
StepSucceeded(e) ==
    IF e.op = "spawn" /\ e.argv[1] = <<"curl">> THEN ProbeSucceeded(e) ELSE e.outcome = "ok"

\* C13: within a clone the steps are directory creation, probe, clone command,
\* checkout, in this order, and every step (and every git --version check) that
\* is followed by another one ended well: no git clone follows a negative or
\* failed probe, no checkout follows a clone command that exited non-zero.
C13_StepsInOrderEachGated ==
    entry = "clone" =>
        /\ \A i \in 1..Len(Steps) : StepRank(Steps[i]) = i
        /\ \A i \in 1..(Len(Steps) - 1) : StepSucceeded(Steps[i])
        /\ \A i \in 1..(Len(events) - 1) : IsGitVersion(events[i]) => events[i].outcome = "ok"
C13_Witness ==
    /\ entry = "clone" /\ pc = "done"
    /\ Len(Steps) = 4
    /\ \A i \in 1..4 : StepSucceeded(Steps[i])

\* C15: when git turns out not to be installed, the clone fails with the
\* git-not-installed error, and the check that found it is the first thing the
\* clone did: no directory creation, probe or git command comes before it.
C15_GitCheckedFirst ==
    entry = "clone" =>
        \A i \in 1..Len(events) :
            (IsGitVersion(events[i]) /\ events[i].outcome = "notfound") =>
                /\ i = 1
                /\ pc = "raised"
                /\ Val(err).msg = <<"Git is not installed. Please install Git before proceeding.">>

\* the segments after owner/repo read blob/<40 hexadecimal characters>/...
IsBlobFullHashPath(parts) ==
    /\ Len(parts) >= 3
    /\ parts[1] = SegBlob
    /\ Len(parts[2]) = 40
    /\ \A i \in 1..Len(parts[2]) : parts[2][i] \in Range(HexDigits)

\* C16: a URL whose path after owner/repo is blob/<40 hex characters>/... is
\* resolved to type blob and to that commit, and its branch is not set.
C16_BlobFullHashIsCommit ==
    (entry = "parse" /\ pc = "returned" /\ IsBlobFullHashPath(InputParts)) =>
        /\ query.type = Some(SegBlob)
        /\ query.commit = Some(InputParts[2])
        /\ query.branch = None

\* the probe found the repository absent or inaccessible: its process exited
\* non-zero, or its first status line reads 404, 302, 401 or 403
ProbeAbsent(e) ==
    \/ e.outcome = "nonzero"
    \/ e.outcome = "ok" /\ StrToInt(e.stdout[1][2]) \in {404, 302, 401, 403}
\* the url a probe was sent to
ProbeUrl(e) == e.argv[Len(e.argv)]
HostUrl(i) == HttpsPrefix \o KNOWN_GIT_HOSTS[i] \o <<"/">> \o Owner \o <<"/">> \o Repo

\* C17: a probe that finds the repository absent (404, 302, 401, 403, or a
\* non-zero exit of the probe process) is followed by the probe of the next known
\* host, or by the failure of the resolution when it was the last host; no host
\* is probed twice, so there is at most one probe per known host.
C17_AbsentAdvancesToNextHost ==
    (entry = "parse" /\ IsSlug(input.source)) =>
        /\ Len(Probes) <= Len(KNOWN_GIT_HOSTS)
        /\ \A i, j \in 1..Len(Probes) : i # j => ProbeUrl(Probes[i]) # ProbeUrl(Probes[j])
        /\ \A i \in 1..Len(Probes) : ProbeAbsent(Probes[i]) =>
                IF i < Len(Probes) THEN ProbeUrl(Probes[i + 1]) = HostUrl(i + 1)
                ELSE IF i < Len(KNOWN_GIT_HOSTS) THEN pc = "resolve" /\ domain = i + 1
                ELSE pc = "raised" /\ Val(err).type = "ValueError"
C17_Witness ==
    /\ entry = "parse" /\ IsSlug(input.source)
    /\ Len(Probes) = Len(KNOWN_GIT_HOSTS)
    /\ Probes[1].outcome = "nonzero"
    /\ ProbeAbsent(Probes[2]) /\ Probes[2].outcome = "ok"
    /\ ProbeUrl(Probes[3]) = HostUrl(3)

\* a credential was supplied to the resolution: as the argument or by the
\* configuration
CredentialSupplied == Truthy(input.github_token) \/ input.GITHUB_TOKEN # <<>>
\* every known host was probed, none with success
AllHostsAbsent ==
    /\ Len(Probes) = Len(KNOWN_GIT_HOSTS)
    /\ \A i \in 1..Len(Probes) : ProbeAbsent(Probes[i])
PermissionDeniedMsg ==
    <<"Repository not found or access denied. Check if '">> \o Owner \o <<"/">> \o Repo
        \o <<"' exists and your token has correct permissions.">>
NoPublicRepoMsg ==
    <<"Could not find a public repository for '">> \o Owner \o <<"/">> \o Repo
        \o <<"'. For private repositories, provide a GitHub token.">>

\* C18: when every known host was probed without success, the resolution fails
\* with the permission message if a credential was supplied and with the
\* no-public-repository message if none was.
C18_ExhaustedMessageByCredential ==
    (entry = "parse" /\ IsSlug(input.source) /\ AllHostsAbsent) =>
        /\ pc = "raised"
        /\ Val(err).type = "ValueError"
        /\ Val(err).msg = IF CredentialSupplied THEN PermissionDeniedMsg ELSE NoPublicRepoMsg
C18_Witness ==
    /\ entry = "parse" /\ IsSlug(input.source) /\ AllHostsAbsent
    /\ input.github_token = None /\ input.GITHUB_TOKEN # <<>>
    /\ pc = "raised" /\ Val(err).msg = PermissionDeniedMsg

\* C19: a pre-clone probe that finds the repository absent or inaccessible is the
\* last thing the clone does (no git command follows), and the clone fails with
\* the access-denied message when a token was configured and with the not-found
\* message when none was.
C19_ProbeFailureMessageByToken ==
    entry = "clone" =>
        \A i \in 1..Len(events) :
            (events[i].op = "spawn" /\ events[i].argv[1] = <<"curl">> /\ ProbeAbsent(events[i])) =>
                /\ i = Len(events)
                /\ pc = "raised"
                /\ Val(err).type = "ValueError"
                /\ Val(err).msg =
                        IF Truthy(config.github_token)
                        THEN <<"Repository not found or access denied. Check your GitHub token permissions.">>
                        ELSE <<"Repository not found, make sure it is public or provide a GitHub token.">>
C19_Witness ==
    /\ entry = "clone" /\ pc = "raised"
    /\ Truthy(config.github_token)
    /\ events[Len(events)].argv[1] = <<"curl">>
    /\ events[Len(events)].outcome = "ok"
    /\ StrToInt(events[Len(events)].stdout[1][2]) = 403
    /\ Val(err).msg = <<"Repository not found or access denied. Check your GitHub token permissions.">>

\* the parts ref=<name> of the query string that name a ref, and the name of a part
NamedRefParts ==
    SelectSeq(input.source.query, LAMBDA part : StartsWith(part, RefEq) /\ Len(part) > Len(RefEq))
RefName(part) == From(part, Len(RefEq))
IsLsRemote(e) == e.op = "spawn" /\ Len(e.argv) >= 2 /\ e.argv[2] = <<"ls-remote">>

\* C20: when the query string carries ref=<name>, the reference returned has
\* branch <name>, whatever branch the path gave, and no branch list was fetched
\* from the remote.
C20_QueryRefIsBranch ==
    (entry = "parse" /\ pc = "returned" /\ NamedRefParts # <<>>) =>
        /\ query.branch = Some(RefName(NamedRefParts[Len(NamedRefParts)]))
        /\ \A i \in 1..Len(Spawned) : ~IsLsRemote(Spawned[i])

\* C21: every reference the parser returns, for a remote source or a local
\* path, has a subpath that starts with "/".
C21_SubpathStartsWithSlash ==
    (entry = "parse" /\ pc = "returned") => StartsWith(query.subpath, <<"/">>)
C21_Witness ==
    /\ entry = "parse" /\ pc = "returned"
    /\ InputParts = <<SegTree, BrMain, SegSrc, SegSub>>
    /\ query.subpath = <<"/">> \o SegSrc \o <<"/">> \o SegSub \o <<"/">>

\* the destination paths handed out so far, as (task, index) pairs
Issued == {<<t, i>> \in Tasks \X (1..MaxResolutions) : i <= Len(dest[t].paths)}

\* C22: any two resolutions of remote sources, concurrent resolutions of the same
\* repository included, receive different destination paths.
C22_DestinationsDistinct ==
    \A a \in Issued, b \in Issued :
        a # b => dest[a[1]].paths[a[2]] # dest[b[1]].paths[b[2]]
C22_Witness ==
    /\ entry = "dest"
    /\ dest["t1"].segs = dest["t2"].segs
    /\ Len(dest["t1"].paths) = MaxResolutions
    /\ Len(dest["t2"].paths) = MaxResolutions

\* the source carries no web flag, no http or https scheme and no known host
PlainLocalSource ==
    /\ entry = "parse"
    /\ input.from_web = FALSE
    /\ input.source.scheme # SchemeHttps /\ input.source.scheme # SchemeHttp
    /\ ~Contains(SourceString(input.source), GithubCom)
    /\ ~Contains(SourceString(input.source), GitlabCom)
    /\ ~Contains(SourceString(input.source), BitbucketOrg)

\* an absolute path without empty, "." or ".." parts
IsResolvedPath(path) ==
    /\ StartsWith(path, <<"/">>)
    /\ ~Contains(path, <<"/", "/">>)
    /\ ~Contains(path \o <<"/">>, <<"/", ".", "/">>)
    /\ ~Contains(path \o <<"/">>, <<"/", ".", ".", "/">>)
    /\ (path = <<"/">> \/ ~EndsWith(path, <<"/">>))

\* C23: a source without the web flag, without an http or https scheme and without
\* a known-host substring is a local path: no process is run, owner, repo and url
\* are unset, the destination is the resolved absolute path, and subpath, type,
\* branch and commit keep their defaults.
C23_LocalPathClassified ==
    (PlainLocalSource /\ pc # "query_start") =>
        /\ events = <<>>
        /\ domain = 0
        /\ query.user_name = None /\ query.repo_name = None /\ query.url = None
        /\ query.local_path = Resolve(input.source.segs)
        /\ IsResolvedPath(query.local_path)
        /\ query.subpath = <<"/">>
        /\ query.type = None /\ query.branch = None /\ query.commit = None
C23_Witness ==
    /\ PlainLocalSource /\ pc = "returned"
    /\ input.source.segs = <<SegDotDot, SegProj, SegSrc>>
    /\ query.local_path = <<"/", "p", "r", "o", "j", "/", "s", "r", "c">>

\* task t's git ls-remote is in flight, t wrote its entry, and the entry is gone
EntryLostInFlight(t) ==
    /\ entry = "fetch"
    /\ fpc[t] = "lsremote_wait"
    /\ WroteEntry(t)
    /\ CredentialInput(furl[t]) \notin store

\* C24: with two concurrent authenticated listings against the same host, the
\* shared credential-store entry written by one task can be revoked by the other
\* while the first task's listing command is in flight; the entry of a listing in
\* flight is never lost in any other way.
C24_EntryLostOnlyByOtherTask ==
    \A t \in Tasks : EntryLostInFlight(t) =>
        \E u \in Tasks \ {t} :
            /\ CredentialInput(furl[u]) = CredentialInput(furl[t])
            /\ RejectDone(u)
C24_Witness ==
    /\ EntryLostInFlight("t1")
    /\ DomainPart(furl["t1"]) = DomainPart(furl["t2"])
    /\ RejectDone("t2")
    /\ fpc["t2"] \in {"decode", "returned"}

\* the host a url names: what stands between "://", or the "@" of the userinfo,
\* and the next "/"
UrlHost(url) ==
    LET rest == Split1(url, SchemeSep)[2]
        authority == IF Contains(rest, <<"/">>) THEN Split1(rest, <<"/">>)[1] ELSE rest
    IN  IF Contains(authority, <<"@">>) THEN Split1(authority, <<"@">>)[2] ELSE authority

\* C25: the token is attached to a probe or clone url only when the target host
\* is github.com: the resolver probes every other host without it, and clone_repo
\* hands it to curl or git only for a repository whose host is github.com.
C25_TokenOnlyForGithubHost ==
    /\ (entry = "clone" /\ Truthy(config.github_token)) =>
            \A i \in 1..Len(Spawned) :
                ArgvHas(Spawned[i].argv, Val(config.github_token)) =>
                    UrlHost(config.url) = GithubCom
    /\ (entry = "parse" /\ ResolverToken(input) # <<>>) =>
            \A i \in 1..Len(Probes) :
                ArgvHas(Probes[i].argv, ResolverToken(input)) =>
                    UrlHost(ProbeUrl(Probes[i])) = GithubCom

\* the branch list was fetched and no prefix of the segments names a branch of it
FetchedNoMatch ==
    FetchSucceeded /\ MatchingPrefixes(InputParts, BranchNames(LastSpawn.stdout)) = {}

\* C26: when the branch-list fetch succeeds and no accumulated prefix of the
\* remaining segments is a branch name, branch and commit stay unset, and the
\* clone command of the reference carries no --branch argument.
C26_NoMatchLeavesBranchUnset ==
    FetchedNoMatch =>
        /\ query.branch = None /\ query.commit = None
        /\ config # NoConfig =>
                /\ config.branch = None /\ config.commit = None
                /\ ~HasArg(CloneCmd(config), <<"--branch">>)
                /\ HasArg(CloneCmd(config), <<"--depth=1">>)
C26_Witness ==
    /\ FetchedNoMatch
    /\ InputParts # <<>>
    /\ BranchNames(LastSpawn.stdout) # <<>>
    /\ config # NoConfig

\* a source without a scheme that is parsed as a remote repository, past the
\* test of its first segment
SchemelessRemote ==
    /\ entry = "parse"
    /\ input.source.scheme = <<>>
    /\ ~PlainLocalSource
    /\ pc \notin {"query_start", "parse_start"}
\* the text of the source before its first "/", in lower case
LeadingText == Lower(Split1(SourceString(input.source) \o <<"/">>, <<"/">>)[1])
Dotted == Contains(LeadingText, <<".">>)
\* the resolver was entered
ResolverInvoked == domain >= 1

\* C27: for a source without a scheme the host resolver is invoked if and only
\* if the first segment has no dot. With a dot the segment is the host, https://
\* is prepended and no host is probed; without one the host of the reference is
\* the one the resolver returned, and a failure of the resolver ends the parse
\* before any branch list is fetched.
C27_ResolverIffNoDot ==
    SchemelessRemote =>
        /\ ResolverInvoked <=> ~Dotted
        /\ Dotted =>
                /\ Probes = <<>>
                /\ query.host = LeadingText
                /\ query.url = Some(HttpsPrefix \o LeadingText \o <<"/">> \o Owner \o <<"/">> \o Repo)
        /\ (~Dotted /\ query # NoQuery) =>
                /\ Probes # <<>>
                /\ ProbeSucceeded(Probes[Len(Probes)])
                /\ query.host = UrlHost(ProbeUrl(Probes[Len(Probes)]))
                /\ query.url = Some(HttpsPrefix \o query.host \o <<"/">> \o Owner \o <<"/">> \o Repo)
        /\ (~Dotted /\ pc = "raised") =>
                /\ query = NoQuery
                /\ \A i \in 1..Len(Spawned) : Spawned[i].argv[1] = <<"curl">>
C27_Witness ==
    /\ SchemelessRemote /\ ~Dotted
    /\ pc = "raised"
    /\ Len(Probes) = Len(KNOWN_GIT_HOSTS)

====
